---- MODULE Spec2Model ----
(***************************************************************************)
(* Model of src/main.js: an Express listener that receives S3 creation     *)
(* events through SNS, fetches and gunzips the ALB log object and sends    *)
(* each log line to Loki.                                                  *)
(*                                                                         *)
(* Strings are sequences of one-character strings, so that split() and the *)
(* regular expression of sendToLoki are computed character by character.   *)
(* JavaScript runs every callback to completion: the synchronous part of   *)
(* the POST handler is modelled step by step (handler.pc), and no promise  *)
(* continuation runs while the handler is on the stack.                    *)
(*                                                                         *)
(* Line 77 of main.js is an endpoint name left outside its comment; the    *)
(* model describes the listener the rest of the file defines.              *)
(*                                                                         *)
(* Spec delivers notifications of any shape; SingleSpec delivers more      *)
(* notifications, of one record each; TimedSpec delivers one notification  *)
(* of Put records and records the timestamps of the requests.              *)
(***************************************************************************)
EXTENDS Integers, Sequences, FiniteSets, TLC

(***************************************************************************)
(* Bounds of the model.                                                    *)
(***************************************************************************)
\* number of POST / requests delivered
MaxPosts == 2
\* number of Records over all delivered notifications
MaxEvents == 2
\* event times are StartTime .. StartTime + MaxAhead
MaxAhead == 2
\* Date.now() returns StartTime .. StartTime + MaxTicks
MaxTicks == 1
\* number of POST / requests delivered when each carries one record
MaxSingles == 3

(***************************************************************************)
(* Characters and strings.                                                 *)
(***************************************************************************)
NL == "\n"

\* \s of the regular expression, on the characters the model uses
IsSpace(c) == c \in {" ", "\t"}
\* [0-9]
IsDigit(c) == c \in {"0", "1", "2", "3", "4", "5", "6", "7", "8", "9"}
\* . matches everything but a line terminator
IsDot(c) == c \notin {"\n", "\r"}

(***************************************************************************)
(* String.prototype.split('\n') and Array.prototype.pop(), line 101-102.   *)
(***************************************************************************)
\* the positions of the separator in s, in increasing order
NewlinesOf(s) == SelectSeq([i \in 1..Len(s) |-> i], LAMBDA i : s[i] = NL)

\* s.split('\n'): the pieces between the separators, one more than separators
Split(s) ==
    LET nl == NewlinesOf(s)
        from(k) == IF k = 1 THEN 1 ELSE nl[k - 1] + 1
        to(k) == IF k > Len(nl) THEN Len(s) ELSE nl[k] - 1
    IN  [k \in 1..(Len(nl) + 1) |-> SubSeq(s, from(k), to(k))]

\* a mutant of Pop: pop() forgotten
PopNothing(a) == a

\* a after a.pop()
Pop(a) == IF a = <<>> THEN a ELSE SubSeq(a, 1, Len(a) - 1)

\* logArray of sendToLoki
LogArrayOf(logData) == Pop(Split(logData))

(***************************************************************************)
(* The regular expression of line 103, as the sequence of its elements:    *)
(* (?<name>.*?) is Cap, \s+ is Ws, a literal character is Lit, .*? is AnyLazy, *)
(* (?<name>[0-9]+) is Digits. It is anchored at the start of the line (^)  *)
(* and not at the end.                                                     *)
(***************************************************************************)
Cap(n) == [k |-> "cap", c |-> "", name |-> n]
Ws == [k |-> "ws", c |-> "", name |-> ""]
Lit(ch) == [k |-> "lit", c |-> ch, name |-> ""]
AnyLazy == [k |-> "any", c |-> "", name |-> ""]
Digits(n) == [k |-> "digits", c |-> "", name |-> n]

re ==
    << Cap("type"), Ws, Cap("time"), Ws, Cap("elb"), Ws, Cap("client"), Ws,
       Cap("target"), Ws, Cap("req_proc_time"), Ws, Cap("target_proc_time"), Ws,
       Cap("resp_proc_time"), Ws, Cap("elb_status"), Ws, Cap("target_status"), Ws,
       Cap("recv_bytes"), Ws, Cap("sent_bytes"), Ws,
       Lit("\""), Cap("request"), Lit("\""), Ws,
       Lit("\""), Cap("user_agent"), Lit("\""), Ws,
       Lit("-"), Ws, Lit("-"), Ws,
       Cap("target_group_arn"), Ws,
       Lit("\""), Cap("trace_id"), Lit("\""), Ws,
       AnyLazy, Digits("match_priority"), Ws,
       Cap("req_creation_time"), Ws,
       Lit("\""), Cap("action_executed"), Lit("\""), Ws,
       AnyLazy, Lit("\""), Lit("-"), Lit("\""), Ws,
       Lit("\""), Lit("-"), Lit("\""), Ws,
       Lit("\""), Cap("target_list"), Lit("\""), Ws,
       Lit("\""), Cap("status_code"), Lit("\""), Ws >>

\* the names of the capturing groups of re, in pattern order
GroupNames == SelectSeq([p \in 1..Len(re) |-> re[p].name], LAMBDA n : n # "")

\* the class of characters a greedy element (\s+ or [0-9]+) repeats
InClass(e, c) == IF e.k = "ws" THEN IsSpace(c) ELSE IsDigit(c)

\* element e can consume exactly line[i .. j-1]
CanConsume(line, e, i, j) ==
    CASE e.k = "lit" -> j = i + 1 /\ i <= Len(line) /\ line[i] = e.c
      [] e.k \in {"ws", "digits"} ->
            j > i /\ \A m \in i..(j - 1) : InClass(e, line[m])
      [] OTHER -> j >= i /\ \A m \in i..(j - 1) : IsDot(line[m])

\* the positions 1 .. Len(line)+1 of line, in increasing order
Positions(line) == SelectSeq([i \in 1..(Len(line) + 1) |-> i], LAMBDA i : TRUE)

\* the positions from which element e followed by the rest of the pattern
\* matches, next being the positions from which the rest matches
Back(line, e, next) ==
    SelectSeq(Positions(line),
              LAMBDA i : \E n \in 1..Len(next) : CanConsume(line, e, i, next[n]))

RECURSIVE BackSeq(_, _, _, _)
\* for each element of re[p .. q], the positions from which re from that
\* element on matches, last being those positions for re[q+1 ..]
BackSeq(line, p, q, last) ==
    IF p = q THEN <<Back(line, re[p], last)>>
    ELSE LET mid == (p + q) \div 2
             right == BackSeq(line, mid + 1, q, last)
         IN  \* the right half is computed before the left half starts
             IF right = <<>> THEN <<>>
             ELSE BackSeq(line, p, mid, Head(right)) \o right

\* the extent the engine gives element re[p] at position i: the shortest
\* (lazy) or the longest (greedy) from which the rest of the pattern still
\* matches, which is where backtracking ends up; next as in Back
EndOf(line, p, i, next) ==
    LET cand == SelectSeq(next, LAMBDA j : CanConsume(line, re[p], i, j)) IN
    IF re[p].k \in {"ws", "digits"} THEN cand[Len(cand)] ELSE cand[1]

RECURSIVE EndSeq(_, _, _, _, _)
\* the end of each element of re[p .. q] in the match that starts re[p] at i;
\* ok[r] are the positions from which re[r ..] matches
EndSeq(line, p, q, i, ok) ==
    IF p = q THEN <<EndOf(line, p, i, ok[p + 1])>>
    ELSE LET mid == (p + q) \div 2
             left == EndSeq(line, p, mid, i, ok)
         IN  \* the left half is computed before the right half starts
             IF left = <<>> THEN <<>>
             ELSE left \o EndSeq(line, mid + 1, q, left[Len(left)], ok)

\* the indexes in re of the capturing groups, in pattern order
CapturingElements ==
    SelectSeq([p \in 1..Len(re) |-> p], LAMBDA p : re[p].k \in {"cap", "digits"})

\* line.match(re), line 106: null, or the array of the whole match (index 0)
\* and of the captures (index 1 ..). The pattern is anchored at position 1.
Match(line) ==
    LET ok == BackSeq(line, 1, Len(re), Positions(line)) \o <<Positions(line)>> IN
    IF \A n \in 1..Len(ok[1]) : ok[1][n] # 1
    THEN [isNull |-> TRUE, groups |-> <<>>]
    ELSE LET ends == EndSeq(line, 1, Len(re), 1, ok)
             starts == <<1>> \o ends
             cap(g) == CapturingElements[g]
         IN  [isNull |-> FALSE,
              groups |-> [g \in 0..Len(CapturingElements) |->
                            IF g = 0 THEN SubSeq(line, 1, ends[Len(re)] - 1)
                            ELSE SubSeq(line, starts[cap(g)], ends[cap(g)] - 1)]]

(***************************************************************************)
(* The record built from the groups, lines 107-115.                        *)
(***************************************************************************)
Keys ==
    << "type", "time", "elb", "client", "target", "req_proc_time",
       "target_proc_time", "resp_proc_time", "elb_status", "target_status",
       "recv_bytes", "sent_bytes", "request", "user_agent", "target_group_arn",
       "trace_id", "match_priority", "req_creation_time", "action_executed",
       "target_list", "status_code" >>

\* the value of an array element that does not exist
Undefined == <<"undefined">>

\* groups[g]
GroupAt(groups, g) == IF g \in DOMAIN groups THEN groups[g] ELSE Undefined

RECURSIVE ForEachKey(_, _, _, _)
\* the forEach of lines 111-115 from the k-th key on: jsonLogObj[key] =
\* groups[keyIndex++]
ForEachKey(groups, k, keyIndex, obj) ==
    IF k > Len(Keys) THEN obj
    ELSE ForEachKey(groups, k + 1, keyIndex + 1,
                    (Keys[k] :> GroupAt(groups, keyIndex)) @@ obj)

\* a mutant of JsonLogObj: keyIndex starts at the whole match
JsonLogObjFromWholeMatch(groups) == ForEachKey(groups, 1, 0, <<>>)

\* jsonLogObj after the forEach, keyIndex starting at 1 (line 108)
JsonLogObj(groups) == ForEachKey(groups, 1, 1, <<>>)

(***************************************************************************)
(* Log lines and log objects the model draws its inputs from.              *)
(***************************************************************************)
\* http t0 lb c t 1 2 3 200 200 10 20 "GET /" "curl" - - arn "id" 1 t1 "fwd"
\* "-" "-" "tg" "200" and a final space: the line of the end-to-end scenario
LineA ==
    << "h", "t", "t", "p", " ", "t", "0", " ", "l", "b", " ", "c", " ", "t",
       " ", "1", " ", "2", " ", "3", " ", "2", "0", "0", " ", "2", "0", "0",
       " ", "1", "0", " ", "2", "0", " ", "\"", "G", "E", "T", " ", "/",
       "\"", " ", "\"", "c", "u", "r", "l", "\"", " ", "-", " ", "-", " ",
       "a", "r", "n", " ", "\"", "i", "d", "\"", " ", "1", " ", "t", "1",
       " ", "\"", "f", "w", "d", "\"", " ", "\"", "-", "\"", " ", "\"", "-",
       "\"", " ", "\"", "t", "g", "\"", " ", "\"", "2", "0", "0", "\"", " " >>

\* h2 t0 lb c t 1 2 -1 301 - 0 9 "" "a b" - - arn "id" "d" "-" 12 t1 "x" "-"
\* "-" "-" "-" "-" "-" and a final tab: an empty request, a user agent with a
\* space, and the domain and certificate fields before the rule priority
LineB ==
    << "h", "2", " ", "t", "0", " ", "l", "b", " ", "c", " ", "t", " ", "1",
       " ", "2", " ", "-", "1", " ", "3", "0", "1", " ", "-", " ", "0", " ",
       "9", " ", "\"", "\"", " ", "\"", "a", " ", "b", "\"", " ", "-", " ",
       "-", " ", "a", "r", "n", " ", "\"", "i", "d", "\"", " ", "\"", "d",
       "\"", " ", "\"", "-", "\"", " ", "1", "2", " ", "t", "1", " ", "\"",
       "x", "\"", " ", "\"", "-", "\"", " ", "\"", "-", "\"", " ", "\"", "-",
       "\"", " ", "\"", "-", "\"", " ", "\"", "-", "\"", " ", "\"", "-",
       "\"", "	" >>

\* a line that is no access log entry
LineBad ==
    << "g", "a", "r", "b", "a", "g", "e" >>

\* a log object of two well-formed lines, each ended by a newline
ObjAB == LineA \o <<NL>> \o LineB \o <<NL>>

\* a log object whose first line is malformed and whose second is well-formed
ObjBadA == LineBad \o <<NL>> \o LineA \o <<NL>>

\* a log object whose last line has no newline
ObjNoFinalNewline == LineB \o <<NL>> \o LineA

\* an empty log object
ObjEmpty == <<>>

\* the contents a log object of the bucket may have, gunzipped
Objects == {ObjAB, ObjBadA, ObjNoFinalNewline, ObjEmpty}

\* the elements of a sequence
Range(f) == {f[x] : x \in DOMAIN f}

\* logArray of each log object of the model, computed once
LogArrayTable == [o \in Objects |-> LogArrayOf(o)]

\* every line sendToLoki may meet
ObjectLines == UNION {Range(LogArrayTable[o]) : o \in Objects}

\* line.match(re) of each of these lines, computed once
MatchTable == [l \in ObjectLines |-> Match(l)]

(***************************************************************************)
(* Notifications.                                                          *)
(***************************************************************************)
\* the process start time, new Date() of line 71
StartTime == 1

Put == "ObjectCreated:Put"
EventNames == {Put, "ObjectRemoved:Delete"}
EventTimes == StartTime..(StartTime + MaxAhead)
ObjectKeys == {"alb.log.gz"}

\* an element of Records: eventName, eventTime parsed by new Date() and
\* getTime(), and the bucket name and object key of s3
EventRecords == [eventName : EventNames, eventTime : EventTimes, key : ObjectKeys]

RECURSIVE SeqsUpTo(_, _)
\* the sequences over S of length at most n
SeqsUpTo(S, n) ==
    IF n = 0 THEN {<<>>}
    ELSE LET shorter == SeqsUpTo(S, n - 1) IN
         shorter \cup {Append(q, x) : q \in shorter, x \in S}

\* a request body. envelope tells how far it parses: "notJSON" (req.body is
\* no JSON text), "badMessage" (its Message is no JSON text), "noRecords"
\* (the message has no Records), "ok". The message of an S3 event has no
\* member but Records.
Notifications ==
    [envelope : {"notJSON", "badMessage", "noRecords"}, Records : {<<>>}]
    \cup [envelope : {"ok"}, Records : SeqsUpTo(EventRecords, MaxEvents)]

(***************************************************************************)
(* State.                                                                  *)
(***************************************************************************)
VARIABLES
    \* let lastUpdated, line 71, as a time in the units of EventTimes
    lastUpdated,
    \* the POST handler on the stack: pc "idle" or "forEach", the Records of
    \* the parsed snsMessage and the index of the next one
    handler,
    \* one entry per call of fetchLogObject, in call order: the suspended or
    \* finished record callback. eventTime and key are those of its record,
    \* pc is what it is suspended in ("fetch" for fetchLogObject, "request"
    \* for line 126) or how it ended ("done", "threw"), gotData tells that
    \* logData is the content of the object rather than null, index is the index
    \* of sendToLoki, sent lists the indexes in logArray of the lines whose
    \* request was issued, in issue order, and failed those whose request failed
    tasks,
    \* the number of POST / requests received and of records they carried
    received, delivered,
    \* the number of res.sendStatus(200) calls
    acked,
    \* the number of rejected promises nobody handles
    unhandled,
    \* the newest event time that passed the test of line 162, StartTime if
    \* none did
    newestAccepted,
    \* the bucket: the gunzipped content of the object of each key
    bucket,
    \* the runtime ended the process on an unhandled rejection
    exited,
    \* what Date.now() returned last (the time of line 71 if it was not called),
    \* and for each callback the values it returned at line 141, in call order:
    \* the timestamps of the requests the callback issued. No branch of the
    \* program reads them; TimedSpec records them, Spec does not
    clock, stamps

vars == <<lastUpdated, handler, tasks, received, delivered, acked, unhandled,
          newestAccepted, bucket, exited, clock, stamps>>

Idle == [pc |-> "idle", Records |-> <<>>, i |-> 1]

Init ==
    /\ lastUpdated = StartTime
    /\ handler = Idle
    /\ tasks = <<>>
    /\ received = 0
    /\ delivered = 0
    /\ acked = 0
    /\ unhandled = 0
    /\ newestAccepted = StartTime
    /\ bucket \in [ObjectKeys -> Objects]
    /\ exited = FALSE
    /\ clock = StartTime
    /\ stamps = <<>>

\* n promises reject and nothing catches them. Depending on its version and
\* flags the runtime warns or ends the process; a runtime that has warned
\* once warns again.
Rejections(n) ==
    /\ unhandled' = unhandled + n
    /\ exited' \in IF n > 0 /\ unhandled = 0 THEN BOOLEAN ELSE {exited}
    /\ UNCHANGED bucket

(***************************************************************************)
(* snsListener.post('/'), lines 155-182.                                   *)
(***************************************************************************)
\* the handler is called with the request body n: lines 156-157 parse the
\* envelope and forEach starts
Handle(n) ==
    /\ received' = received + 1
    /\ delivered' = delivered + Len(n.Records)
    /\ IF n.envelope = "ok"
       THEN /\ handler' = [pc |-> "forEach", Records |-> n.Records, i |-> 1]
            /\ Rejections(0)
       ELSE \* JSON.parse throws, or forEach is read from undefined: the async
            \* handler rejects before line 181
            /\ handler' = handler
            /\ Rejections(1)
    /\ UNCHANGED <<lastUpdated, tasks, acked, newestAccepted, clock, stamps>>

\* a POST / request arrives while no callback is running
Receive ==
    /\ ~exited
    /\ handler.pc = "idle"
    /\ received < MaxPosts
    /\ \E n \in Notifications :
          /\ delivered + Len(n.Records) <= MaxEvents
          /\ Handle(n)

\* a mutant of Newer: an event is turned away while the object of an earlier
\* one is being fetched or sent
NewerAndIdle(eventTime, watermark) ==
    /\ eventTime > watermark
    /\ \A t \in DOMAIN tasks : tasks[t].pc \in {"done", "threw"}

\* a mutant of Newer: an event as old as the watermark passes
NewerOrEqual(eventTime, watermark) == eventTime >= watermark

\* eventTime.getTime() > lastUpdated.getTime(), line 162
Newer(eventTime, watermark) == eventTime > watermark

\* a mutant of IsPut: an event of any name starts a fetch
IsAnyEvent(eventName) == eventName \in EventNames

\* record.eventName === 'ObjectCreated:Put', line 164
IsPut(eventName) == eventName = Put

\* the callback that has called fetchLogObject for the object of the record,
\* line 165, and waits for it
NewTask(record) ==
    [eventTime |-> record.eventTime,
     key |-> record.key,
     pc |-> "fetch",
     gotData |-> FALSE,
     index |-> 0,
     sent |-> <<>>,
     failed |-> {}]

\* the callback of forEach up to its first await: lines 161-165 and the call
\* of fetchLogObject up to line 88, or lines 161-164 and 176
RecordCallback ==
    /\ ~exited
    /\ handler.pc = "forEach"
    /\ handler.i <= Len(handler.Records)
    /\ LET record == handler.Records[handler.i] IN
       /\ IF Newer(record.eventTime, lastUpdated)
          THEN /\ newestAccepted' = IF record.eventTime > newestAccepted
                                      THEN record.eventTime ELSE newestAccepted
               /\ IF IsPut(record.eventName)
                  THEN /\ tasks' = Append(tasks, NewTask(record))
                       /\ lastUpdated' = lastUpdated
                  ELSE /\ tasks' = tasks
                       /\ lastUpdated' = record.eventTime
          ELSE UNCHANGED <<newestAccepted, tasks, lastUpdated>>
       /\ handler' = [handler EXCEPT !.i = @ + 1]
    /\ UNCHANGED <<received, delivered, acked, unhandled, bucket, exited,
                   clock, stamps>>

\* a mutant of SendStatus: the response is sent from inside the loop
SendStatusEarly ==
    /\ ~exited
    /\ handler.pc = "forEach"
    /\ acked' = acked + 1
    /\ handler' = Idle
    /\ UNCHANGED <<lastUpdated, tasks, received, delivered, unhandled,
                   newestAccepted, bucket, exited, clock, stamps>>

\* forEach is over: res.sendStatus(200), line 181
SendStatus ==
    /\ ~exited
    /\ handler.pc = "forEach"
    /\ handler.i > Len(handler.Records)
    /\ acked' = acked + 1
    /\ handler' = Idle
    /\ UNCHANGED <<lastUpdated, tasks, received, delivered, unhandled,
                   newestAccepted, bucket, exited, clock, stamps>>

(***************************************************************************)
(* The record callback after its first await: fetchLogObject, lines 80-97, *)
(* lines 170-176, and sendToLoki, lines 100-152.                           *)
(***************************************************************************)
\* fetchLogObject returned null or an empty string: line 171 reads
\* snsMessage.bucket.name, and snsMessage has no bucket: a TypeError
NoLogData(task) == [task EXCEPT !.pc = "threw"]

\* a mutant of Loop: the lines are sent from the last to the first
LoopReverse(task, logData) ==
    LET logArray == LogArrayTable[logData] IN
    IF task.index >= Len(logArray) THEN [task EXCEPT !.pc = "done"]
    ELSE IF MatchTable[logArray[Len(logArray) - task.index]].isNull
         THEN [task EXCEPT !.pc = "threw"]
         ELSE [task EXCEPT !.pc = "request",
                           !.sent = Append(@, Len(logArray) - 1 - task.index)]

\* the for loop of sendToLoki from logArray[task.index] to its next await:
\* the loop ends (and the callback reaches line 176), line 114 throws on a
\* null match, or the request of line 126 is issued with jsonLogLine
Loop(task, logData) ==
    LET logArray == LogArrayTable[logData] IN
    IF task.index >= Len(logArray) THEN [task EXCEPT !.pc = "done"]
    ELSE IF MatchTable[logArray[task.index + 1]].isNull
         THEN [task EXCEPT !.pc = "threw"]
         ELSE [task EXCEPT !.pc = "request", !.sent = Append(@, task.index)]

\* jsonLogObj of each line that matches, computed once
JsonLogObjTable ==
    [l \in {x \in ObjectLines : ~MatchTable[x].isNull} |->
        JsonLogObj(MatchTable[l].groups)]

\* jsonLogLine of the request issued for logArray[index], lines 106-116
JsonLogLine(logData, index) == JsonLogObjTable[LogArrayTable[logData][index + 1]]

\* a mutant of AfterRequest: a request that failed is issued again
AfterRequestRetry(task, logData, ok) ==
    IF ok THEN Loop([task EXCEPT !.index = @ + 1], logData)
    ELSE Loop([task EXCEPT !.failed = @ \cup {task.index}], logData)

\* a mutant of AfterRequest: no try/catch around the request
AfterRequestNoCatch(task, logData, ok) ==
    IF ok THEN Loop([task EXCEPT !.index = @ + 1], logData)
    ELSE [task EXCEPT !.pc = "threw", !.failed = @ \cup {task.index}]

\* the request of line 126 settled: the catch of line 148 logs a failure,
\* index++ and the loop goes on
AfterRequest(task, logData, ok) ==
    Loop([task EXCEPT !.index = @ + 1,
                      !.failed = IF ok THEN @ ELSE @ \cup {task.index}],
         logData)

\* task t of the callbacks ran up to its next await or to its end and is now
\* next; a callback that ends normally has executed line 176
Resume(t, next) ==
    /\ tasks' = [tasks EXCEPT ![t] = next]
    /\ lastUpdated' = IF next.pc = "done" THEN next.eventTime ELSE lastUpdated
    /\ Rejections(IF next.pc = "threw" THEN 1 ELSE 0)
    /\ UNCHANGED <<handler, received, delivered, acked, newestAccepted>>

\* what the two awaits of fetchLogObject come to: getObject rejects,
\* ungzip rejects, or data.toString() is returned
FetchOutcomes == {"getObjectError", "ungzipError", "data"}

\* fetchLogObject returns, lines 86-96 (it shares no state with the other
\* callbacks between its two awaits), and the callback goes on at line 170,
\* where an empty string is as good as null
FetchDone(t, outcome) ==
    /\ ~exited
    /\ handler.pc = "idle"
    /\ tasks[t].pc = "fetch"
    /\ LET logData == bucket[tasks[t].key] IN
       Resume(t, IF outcome = "data" /\ logData # <<>>
                 THEN Loop([tasks[t] EXCEPT !.gotData = TRUE, !.index = 0], logData)
                 ELSE NoLogData(tasks[t]))

\* the request of line 126 settles
RequestDone(t, ok) ==
    /\ ~exited
    /\ handler.pc = "idle"
    /\ tasks[t].pc = "request"
    /\ Resume(t, AfterRequest(tasks[t], bucket[tasks[t].key], ok))

\* the timestamps are not recorded
Untimed == UNCHANGED <<clock, stamps>>

Next ==
    \/ Receive
    \/ RecordCallback
    \/ SendStatus
    \/ \E t \in DOMAIN tasks, outcome \in FetchOutcomes :
          FetchDone(t, outcome) /\ Untimed
    \/ \E t \in DOMAIN tasks, ok \in BOOLEAN :
          RequestDone(t, ok) /\ Untimed

Spec == Init /\ [][Next]_vars

(***************************************************************************)
(* The timestamps of the requests, line 141: one notification of Put       *)
(* records in the order of their times, with the values of Date.now()      *)
(* recorded.                                                               *)
(***************************************************************************)
\* the timestamps callback t has given its requests so far
StampsOf(t) == IF t \in DOMAIN stamps THEN stamps[t] ELSE <<>>

\* what Date.now() can return: the clock is not set back
Readings == clock..(StartTime + MaxTicks)

\* Date.now() * 1000000, line 141: the milliseconds of the clock as
\* nanoseconds
Nanoseconds(now) == now * 1000000

\* callback t has run up to its next await: if it has issued a request, the
\* request carries the value of Date.now() as nanoseconds
Timestamp(t) ==
    IF Len(tasks'[t].sent) > Len(tasks[t].sent)
    THEN \E now \in Readings :
            /\ clock' = now
            /\ stamps' = (t :> Append(StampsOf(t), Nanoseconds(now))) @@ stamps
    ELSE Untimed

\* the notifications whose records are Put events of increasing eventTime
PutNotifications ==
    {n \in Notifications :
        /\ n.envelope = "ok"
        /\ \A i \in DOMAIN n.Records : n.Records[i].eventName = Put
        /\ \A i, j \in DOMAIN n.Records :
              i < j => n.Records[i].eventTime < n.Records[j].eventTime}

\* the one POST / request
TimedReceive ==
    /\ ~exited
    /\ received = 0
    /\ \E n \in PutNotifications : Handle(n)

TimedNext ==
    \/ TimedReceive
    \/ RecordCallback
    \/ SendStatus
    \/ \E t \in DOMAIN tasks, outcome \in FetchOutcomes :
          FetchDone(t, outcome) /\ Timestamp(t)
    \/ \E t \in DOMAIN tasks, ok \in BOOLEAN :
          RequestDone(t, ok) /\ Timestamp(t)

TimedSpec == Init /\ [][TimedNext]_vars

(***************************************************************************)
(* Notifications of one record each, which is what S3 sends: more of them  *)
(* are delivered than in Spec.                                             *)
(***************************************************************************)
\* a POST / request with one record arrives while no callback is running
SingleReceive ==
    /\ ~exited
    /\ handler.pc = "idle"
    /\ received < MaxSingles
    /\ \E n \in Notifications :
          /\ Len(n.Records) = 1
          /\ Handle(n)

SingleNext ==
    \/ SingleReceive
    \/ RecordCallback
    \/ SendStatus
    \/ \E t \in DOMAIN tasks, outcome \in FetchOutcomes :
          FetchDone(t, outcome) /\ Untimed
    \/ \E t \in DOMAIN tasks, ok \in BOOLEAN :
          RequestDone(t, ok) /\ Untimed

SingleSpec == Init /\ [][SingleNext]_vars

(***************************************************************************)
(* Properties.                                                             *)
(***************************************************************************)
\* the callback of task t has ended
Finished(t) == tasks[t].pc \in {"done", "threw"}

\* logArray of task t, which has its log data
LogArray(t) == LogArrayTable[bucket[tasks[t].key]]

\* the line matches the regular expression
WellFormed(line) == ~MatchTable[line].isNull

\* C1: the same event (same eventTime and key) has its log object fetched at
\* most once, however its deliveries interleave.
C1_SameEventFetchedOnce ==
    \A i, j \in DOMAIN tasks :
        i # j => ~(/\ tasks[i].eventTime = tasks[j].eventTime
                   /\ tasks[i].key = tasks[j].key)

\* C2: an event strictly older than an event accepted before it is rejected:
\* no fetch is started for it.
C2_OlderEventRejected ==
    \A i, j \in DOMAIN tasks :
        i < j => tasks[j].eventTime >= tasks[i].eventTime

\* C3: the watermark never decreases.
C3_WatermarkMonotonic == [][lastUpdated' >= lastUpdated]_vars

\* C4: once every pipeline instance has finished (here: normally), the
\* watermark is the newest accepted event time.
C4_FinalWatermarkIsNewest ==
    (handler.pc = "idle" /\ \A t \in DOMAIN tasks : tasks[t].pc = "done")
        => lastUpdated = newestAccepted

\* the forEach callback is about to run on a record that is not newer than
\* the watermark
AtStaleRecord ==
    /\ handler.pc = "forEach"
    /\ handler.i <= Len(handler.Records)
    /\ handler.Records[handler.i].eventTime <= lastUpdated

\* C5: an event whose eventTime is at most the watermark is rejected: its
\* callback starts no fetch, leaves the watermark unchanged and raises no
\* error.
C5_StaleEventRejected ==
    [][AtStaleRecord =>
          /\ tasks' = tasks
          /\ lastUpdated' = lastUpdated
          /\ newestAccepted' = newestAccepted
          /\ unhandled' = unhandled
          /\ handler' = [handler EXCEPT !.i = @ + 1]]_vars

\* a Put record as old as the watermark or older has just been through the
\* callback, and no fetch was ever started
C5_Witness ==
    /\ handler.pc = "forEach"
    /\ handler.i > 1
    /\ handler.Records[handler.i - 1].eventName = Put
    /\ handler.Records[handler.i - 1].eventTime <= lastUpdated
    /\ tasks = <<>>

\* C6: every POST / is answered with 200: once the handler is off the stack,
\* as many responses were sent as requests were received.
C6_EveryPostAcked == handler.pc = "idle" => acked = received

\* C7: a malformed line is skipped: when the callback has ended, a request
\* was issued for every well-formed line of the blob.
C7_MalformedLineSkipped ==
    \A t \in DOMAIN tasks :
        (Finished(t) /\ tasks[t].gotData) =>
            \A k \in 1..Len(LogArray(t)) :
                WellFormed(LogArray(t)[k]) => (k - 1) \in Range(tasks[t].sent)

\* C8: a failed request does not stop the loop: in a blob of N well-formed
\* lines the callback never throws, a request that failed was followed by the
\* next iteration, and at the end a request was issued for each of the N
\* lines, whichever requests failed.
C8_SubmitFailureIsolated ==
    \A t \in DOMAIN tasks :
        (tasks[t].gotData /\ \A k \in 1..Len(LogArray(t)) : WellFormed(LogArray(t)[k]))
        => /\ tasks[t].pc # "threw"
           /\ tasks[t].failed \subseteq Range(tasks[t].sent)
           /\ \A k \in tasks[t].failed : tasks[t].index > k
           /\ tasks[t].pc = "done" => Len(tasks[t].sent) = Len(LogArray(t))

\* the first request of a two-line blob failed and the second line was sent
C8_Witness ==
    \E t \in DOMAIN tasks :
        /\ tasks[t].pc = "done"
        /\ 0 \in tasks[t].failed
        /\ tasks[t].sent = <<0, 1>>

\* the well-formed lines of the model
GoodLines == {l \in ObjectLines : WellFormed(l)}

RECURSIVE Terminated(_)
\* the blob made of the given lines, each followed by a newline
Terminated(lines) ==
    IF lines = <<>> THEN <<>>
    ELSE Head(lines) \o <<NL>> \o Terminated(Tail(lines))

\* the number of newlines of a blob
NumNewlines(blob) == Cardinality({i \in 1..Len(blob) : blob[i] = NL})

\* for each log object, the ways to read it as well-formed lines each
\* followed by a newline (one way, or none)
TerminatedLinesOf ==
    [o \in Objects |->
        {lines \in [1..NumNewlines(o) -> GoodLines] : o = Terminated(lines)}]

\* C9: a blob of k newline-terminated well-formed lines yields exactly k
\* requests, the m-th being the one issued for the m-th line.
C9_OneEntryPerLine ==
    \A t \in DOMAIN tasks :
        (Finished(t) /\ tasks[t].gotData) =>
            LET blob == bucket[tasks[t].key] IN
            \A lines \in TerminatedLinesOf[blob] :
                /\ tasks[t].pc = "done"
                /\ Len(tasks[t].sent) = Len(lines)
                /\ \A m \in 1..Len(lines) :
                      LogArray(t)[tasks[t].sent[m] + 1] = lines[m]

\* the callback that fetched the two-line blob has ended
C9_Witness ==
    \E t \in DOMAIN tasks :
        /\ tasks[t].pc = "done"
        /\ bucket[tasks[t].key] = LineA \o <<NL>> \o LineB \o <<NL>>
        /\ Len(tasks[t].sent) = 2

\* the characters of the log objects
Chars == UNION {Range(o) : o \in Objects}

\* v is a string
IsString(v) == DOMAIN v = 1..Len(v) /\ \A i \in DOMAIN v : v[i] \in Chars

\* the record of the request task t is waiting for
InFlight(t) == JsonLogLine(bucket[tasks[t].key], tasks[t].index)

\* C10 as stated: every matching line yields a record of exactly 20 fields.
C10_TwentyFields ==
    \A t \in DOMAIN tasks :
        tasks[t].pc = "request" => Cardinality(DOMAIN InFlight(t)) = 20

\* C10, amended: every matching line yields a record with exactly the 21
\* named fields of the schema, each a string, the field of each name holding
\* the capture of the group of that name.
C10_TwentyOneFields ==
    \A t \in DOMAIN tasks :
        tasks[t].pc = "request" =>
            LET obj == InFlight(t)
                groups == MatchTable[LogArray(t)[tasks[t].index + 1]].groups
            IN  /\ DOMAIN obj = Range(Keys)
                /\ Cardinality(DOMAIN obj) = 21
                /\ \A key \in DOMAIN obj : IsString(obj[key])
                /\ \A g \in 1..Len(GroupNames) : obj[GroupNames[g]] = groups[g]

\* a request carrying the record of the line with an empty request field
C10_Witness ==
    \E t \in DOMAIN tasks :
        /\ tasks[t].pc = "request"
        /\ InFlight(t).request = <<>>
        /\ InFlight(t).type = <<"h", "2">>

\* the fetch of task t failed: the callback has ended without log data though
\* the object is not empty
FetchFailed(t) ==
    /\ Finished(t)
    /\ ~tasks[t].gotData
    /\ bucket[tasks[t].key] # ObjEmpty

\* C11: the watermark is advanced when the event is accepted, before its
\* fetch begins: while the event is fetching or submitting, and after its
\* fetch has failed, the watermark is at least its eventTime.
C11_AdvancedAtAcceptance ==
    \A t \in DOMAIN tasks :
        (tasks[t].pc \in {"fetch", "request"} \/ FetchFailed(t))
            => lastUpdated >= tasks[t].eventTime

\* C12: a failed fetch is not fatal: the callback ends without an unhandled
\* error and without a request, and the process lives on.
C12_FetchFailureNonFatal ==
    \A t \in DOMAIN tasks :
        FetchFailed(t) => /\ tasks[t].pc # "threw"
                          /\ tasks[t].sent = <<>>
                          /\ unhandled = 0
                          /\ ~exited

\* the forEach callback is about to run on a record
AtRecord == handler.pc = "forEach" /\ handler.i <= Len(handler.Records)

\* the record the forEach callback is about to run on
CurrentRecord == handler.Records[handler.i]

\* C13: an event whose name is not ObjectCreated:Put starts no fetch (hence
\* no parse and no submission, which only a fetched object gets), whatever
\* its eventTime; a fetch is started only by the callback of a record that is
\* newer than the watermark and named ObjectCreated:Put, for its object.
C13_OnlyNewPutFetched ==
    [][/\ (AtRecord /\ CurrentRecord.eventName # Put) => tasks' = tasks
       /\ Len(tasks') > Len(tasks) =>
              /\ AtRecord
              /\ CurrentRecord.eventName = Put
              /\ CurrentRecord.eventTime > lastUpdated
              /\ tasks' = Append(tasks, NewTask(CurrentRecord))]_vars

\* an event that is newer than the watermark and not a Put has been through
\* the callback, and no fetch was ever started
C13_Witness ==
    /\ handler.pc = "forEach"
    /\ handler.i = 2
    /\ handler.Records[1].eventName # Put
    /\ handler.Records[1].eventTime > StartTime
    /\ lastUpdated = handler.Records[1].eventTime
    /\ received = 1
    /\ tasks = <<>>

\* the indexes 0 .. n-1 of an array of n lines, in order
IndexesOf(n) == [m \in 1..n |-> m - 1]

\* C14: a Put event newer than the watermark and than every event accepted
\* before it is accepted, whatever the callbacks of the earlier events are
\* doing, and a callback that runs to its end has issued one request for each
\* line of its object, whichever callback ends first.
C14_IncreasingPutsBothProcessed ==
    [][/\ (/\ AtRecord
           /\ CurrentRecord.eventName = Put
           /\ CurrentRecord.eventTime > newestAccepted)
              => tasks' = Append(tasks, NewTask(CurrentRecord))
       /\ \A t \in DOMAIN tasks :
              tasks'[t].pc = "done" =>
                  /\ tasks'[t].gotData
                  /\ tasks'[t].sent = IndexesOf(Len(LogArray(t)))]_vars

\* two Put events of increasing eventTime were both accepted and the lines of
\* both were sent, the callback of the later one ending first
C14_Witness ==
    /\ Len(tasks) = 2
    /\ tasks[1].eventTime < tasks[2].eventTime
    /\ tasks[1].pc = "done" /\ tasks[1].sent = <<0, 1>>
    /\ tasks[2].pc = "done" /\ tasks[2].sent = <<0, 1>>
    /\ lastUpdated = tasks[1].eventTime

\* C15: nothing is tried again. A callback calls fetchLogObject once, when
\* its record is accepted, and never goes back to it; a callback that has
\* ended, by a failed fetch or otherwise, stays as it is; and no line is
\* sent twice, whether its request succeeded or failed.
C15_NoRetry ==
    [][/\ Len(tasks') <= Len(tasks) + 1
       /\ \A t \in DOMAIN tasks :
              /\ tasks[t].pc # "fetch" => tasks'[t].pc # "fetch"
              /\ Finished(t) => tasks'[t] = tasks[t]
              /\ tasks'[t].failed \subseteq Range(tasks'[t].sent)
              /\ \A m, n \in DOMAIN tasks'[t].sent :
                     m < n => tasks'[t].sent[m] < tasks'[t].sent[n]]_vars

\* the fetch of one event failed, both requests of another failed, and both
\* callbacks have ended
C15_Witness ==
    \E t, u \in DOMAIN tasks :
        /\ FetchFailed(t)
        /\ tasks[u].pc = "done"
        /\ tasks[u].failed = {0, 1}
        /\ Len(tasks[u].sent) = 2

\* the requests of callback t that have not settled: those of the lines from
\* its index on
Unsettled(t) == {k \in Range(tasks[t].sent) : k >= tasks[t].index}

\* C16: within one blob the entries are sent one at a time in line order:
\* the requests issued so far are those of the first lines, in order, all of
\* them have settled but the one the callback is waiting for, and their
\* timestamps do not decrease.
C16_OneAtATimeInOrder ==
    \A t \in DOMAIN tasks :
        /\ tasks[t].sent = IndexesOf(Len(tasks[t].sent))
        /\ Unsettled(t) = IF tasks[t].pc = "request" THEN {tasks[t].index} ELSE {}
        /\ Len(StampsOf(t)) = Len(tasks[t].sent)
        /\ \A m, n \in DOMAIN StampsOf(t) :
               m < n => StampsOf(t)[m] <= StampsOf(t)[n]

\* one callback has sent its two lines at different times and ended while
\* another, whose first request was issued between them, waits for its second
C16_Witness ==
    \E t, u \in DOMAIN tasks :
        /\ tasks[t].pc = "done"
        /\ StampsOf(t) = <<Nanoseconds(StartTime), Nanoseconds(StartTime + 1)>>
        /\ tasks[u].pc = "request"
        /\ StampsOf(u) = <<Nanoseconds(StartTime), Nanoseconds(StartTime + 1)>>

\* C17: every callback that was started comes to its end, given that every
\* fetch and every request returns. As a property of finite runs: the
\* program never stops (here: the runtime ends the process) while a callback
\* is still waiting for its fetch or its request, since such a callback is
\* never resumed.
C17_EveryInstanceTerminates ==
    exited => \A t \in DOMAIN tasks : Finished(t)

\* the newest event accepted so far is not a Put: it is newer than the time
\* of line 71 and than every event a fetch was started for
NewestIsNotPut ==
    /\ newestAccepted > StartTime
    /\ \A t \in DOMAIN tasks : tasks[t].eventTime < newestAccepted

\* C18: an event newer than the watermark and not named ObjectCreated:Put
\* advances the watermark to its eventTime, and a Put event that arrives
\* after it with an eventTime not greater than its eventTime is rejected: no
\* fetch is started.
C18_OtherEventAdvancesWatermark ==
    [][/\ (/\ AtRecord
           /\ CurrentRecord.eventName # Put
           /\ CurrentRecord.eventTime > lastUpdated)
              => lastUpdated' = CurrentRecord.eventTime
       /\ (/\ AtRecord
           /\ CurrentRecord.eventName = Put
           /\ NewestIsNotPut
           /\ CurrentRecord.eventTime <= newestAccepted)
              => tasks' = tasks]_vars

\* C19: the 200 is sent without waiting for the processing. It is sent when
\* the callback has run on every record of the message, so every watermark
\* test is done; and from the arrival of the message to the 200 no fetch and
\* no request of any callback completes, each callback the message starts
\* being left waiting for its fetch.
C19_AckBeforeProcessing ==
    [][/\ acked' # acked =>
              /\ handler.pc = "forEach"
              /\ handler.i > Len(handler.Records)
              /\ acked' = acked + 1
       /\ handler.pc = "forEach" =>
              \A t \in DOMAIN tasks : tasks'[t] = tasks[t]
       /\ Len(tasks') > Len(tasks) =>
              /\ handler.pc = "forEach"
              /\ tasks'[Len(tasks')].pc = "fetch"]_vars

\* the 200 of a notification of two Put records has been sent, and both
\* fetches are still pending
C19_Witness ==
    /\ received = 1
    /\ acked = 1
    /\ handler.pc = "idle"
    /\ Len(tasks) = 2
    /\ tasks[1].pc = "fetch"
    /\ tasks[2].pc = "fetch"

====
